---- MODULE Spec2Model ----
(***************************************************************************)
(* PiCam box detector: the presence stabilizer of scripts/box_stream.py    *)
(* (classical loop) and the decoupler + stabilizer of                      *)
(* scripts/box_stream_yolo.py (neural variant, threaded Flask server).     *)
(*                                                                         *)
(* A behaviour is a run of ONE of the two scripts; `script` says which.    *)
(* Raw counts are abstracted to what the stabilizer reads of them: the     *)
(* history `recent` keeps, per frame, whether the raw count was > 0.       *)
(***************************************************************************)
EXTENDS Integers, Sequences, FiniteSets

VARIABLES
    script,      \* which script runs: "box_stream" or "box_stream_yolo"
    gen,         \* box_stream.py mjpeg_generator locals: present, hits, misses, frame_i
    cycle,       \* how the generator's last loop cycle ended (at) and whether it
                 \* yielded a frame (sent)
    recent,      \* (raw count > 0) of the last frames whose count reached the
                 \* hit/miss counters, oldest first
    order,       \* history: the order of the frames fed to the neural stabilizer
    \* ---- box_stream_yolo.py
    q,           \* DetectorThread.q, queue.Queue(maxsize=1): sequence of frame ids
    last_result, \* DetectorThread.last_result: its number of box-like detections
    frame_count, \* DetectorThread.frame_count
    w_pc,        \* DetectorThread.run position: "get" (waiting on q) or "infer"
    hits,        \* module global hits
    misses,      \* module global misses
    present,     \* module global present
    last_present,\* module global last_present
    warm,        \* TRUE while time.time() - t0 < WARMUP_SEC
    cam,         \* frames captured so far; a frame's id is its capture number
    th,          \* per request thread: kind, pc, frame, box_count, tmp
    newest,      \* history: highest frame id passed to submit() so far
    oldest,      \* history: first frame a submit tried to place since q was last empty
    took,        \* history: how the frame the worker last took compared with them
    advances,    \* history: number of hit/miss counter increments so far
    \* ---- start-up and pure functions
    boot,        \* module start-up: stage, MODEL_PATHS, files on disk, model
                 \* loaded, state of the worker thread, thresholds in force
    call         \* a call of a pure function: its name, arguments and result

cvars == <<gen, cycle>>
yvars == <<q, last_result, frame_count, w_pc, hits, misses, present,
           last_present, warm, cam, th, newest, oldest, took, advances>>
pvars == <<boot, call>>
vars == <<script, recent, order, cvars, yvars, pvars>>

\* ---------------------------------------------------------------- bounds
\* Frames the classical loop analyses before the model stops it.
MaxFrames == 46
\* Largest raw count a detection pass reports.
MaxCount == 1

\* ------------------------------------------------- box_stream.py constants
HIT_THRESHOLD == 4
MISS_THRESHOLD == 10
STARTUP_WARMUP_FRAMES == 30

RawCounts == 0..MaxCount

\* The last n entries of s (all of s when it is shorter).
LastN(s, n) == IF Len(s) <= n THEN s ELSE SubSeq(s, Len(s) - n + 1, Len(s))

\* ------------------------------------------------------ classical stabilizer
\* box_stream.py 234-237: the generator's locals before the first frame.
GenInit == [present |-> FALSE, hits |-> 0, misses |-> 0, frame_i |-> 0]

\* Mutant of StreamStep: warm-up test off by one (frame_i < warmN).
StreamStepWarmOff(g, raw_count, warmN, hitT, missT) ==
    LET i == g.frame_i + 1 IN
    IF i < warmN
    THEN [present |-> FALSE, hits |-> 0, misses |-> 0, frame_i |-> i]
    ELSE IF raw_count > 0
         THEN [present |-> (g.present \/ g.hits + 1 >= hitT),
               hits |-> g.hits + 1, misses |-> 0, frame_i |-> i]
         ELSE [present |-> (g.present /\ ~(g.misses + 1 >= missT)),
               hits |-> 0, misses |-> g.misses + 1, frame_i |-> i]

\* Mutant of StreamStep: the hit test is strict (hits > hitT).
StreamStepLateHit(g, raw_count, warmN, hitT, missT) ==
    LET i == g.frame_i + 1 IN
    IF i <= warmN
    THEN [present |-> FALSE, hits |-> 0, misses |-> 0, frame_i |-> i]
    ELSE IF raw_count > 0
         THEN [present |-> (g.present \/ g.hits + 1 > hitT),
               hits |-> g.hits + 1, misses |-> 0, frame_i |-> i]
         ELSE [present |-> (g.present /\ ~(g.misses + 1 >= missT)),
               hits |-> 0, misses |-> g.misses + 1, frame_i |-> i]

\* box_stream.py 251-267: frame_i += 1, warm-up ignore, hysteresis.
StreamStep(g, raw_count, warmN, hitT, missT) ==
    LET i == g.frame_i + 1 IN
    IF i <= warmN
    THEN [present |-> FALSE, hits |-> 0, misses |-> 0, frame_i |-> i]
    ELSE IF raw_count > 0
         THEN LET h == g.hits + 1 IN
              [present |-> IF ~g.present /\ h >= hitT THEN TRUE ELSE g.present,
               hits |-> h, misses |-> 0, frame_i |-> i]
         ELSE LET m == g.misses + 1 IN
              [present |-> IF g.present /\ m >= missT THEN FALSE ELSE g.present,
               hits |-> 0, misses |-> m, frame_i |-> i]

\* box_stream.py 242-305: one cycle of the stream loop that analyses a frame
\* whose detection pass returned raw_count.
LoopFrame(raw_count, warmN, hitT, missT, keep) ==
    /\ script = "box_stream"
    /\ gen' = StreamStep(gen, raw_count, warmN, hitT, missT)
    /\ recent' = LastN(Append(recent, raw_count > 0), keep)
    /\ cycle' = [at |-> "yield", sent |-> TRUE]
    /\ UNCHANGED <<script, order, yvars, pvars>>

\* box_stream.py 300-302: the same cycle when cv2.imencode reports failure:
\* the stabilizer has stepped, `continue` skips the yield.
LoopDropped(raw_count, warmN, hitT, missT, keep) ==
    /\ script = "box_stream"
    /\ gen' = StreamStep(gen, raw_count, warmN, hitT, missT)
    /\ recent' = LastN(Append(recent, raw_count > 0), keep)
    /\ cycle' = [at |-> "encode", sent |-> FALSE]
    /\ UNCHANGED <<script, order, yvars, pvars>>

\* Mutant of Skipped: the failed cycle steps the stabilizer with raw count 0.
SkippedAsZero(g, warmN, hitT, missT) == StreamStep(g, 0, warmN, hitT, missT)

\* box_stream.py 307-314: the generator's locals after a cycle that raised
\* before line 251; the handler logs, sleeps and continues.
Skipped(g, warmN, hitT, missT) == g

\* box_stream.py 243-249, 307-314: a cycle in which line `at` raises
\* ("capture": picam.capture_array or cvtColor, "detect": find_boxes).
LoopError(at, warmN, hitT, missT) ==
    /\ script = "box_stream"
    /\ gen' = Skipped(gen, warmN, hitT, missT)
    /\ cycle' = [at |-> at, sent |-> FALSE]
    /\ UNCHANGED <<script, recent, order, yvars, pvars>>

\* The classical loop with the script's own thresholds.
ClassicFrame ==
    /\ gen.frame_i < MaxFrames
    /\ \E raw_count \in RawCounts :
          LoopFrame(raw_count, STARTUP_WARMUP_FRAMES, HIT_THRESHOLD,
                    MISS_THRESHOLD, MISS_THRESHOLD)

ClassicDropped ==
    /\ gen.frame_i < MaxFrames
    /\ \E raw_count \in RawCounts :
          LoopDropped(raw_count, STARTUP_WARMUP_FRAMES, HIT_THRESHOLD,
                      MISS_THRESHOLD, MISS_THRESHOLD)

ClassicCaptureFails ==
    LoopError("capture", STARTUP_WARMUP_FRAMES, HIT_THRESHOLD, MISS_THRESHOLD)

ClassicDetectFails ==
    LoopError("detect", STARTUP_WARMUP_FRAMES, HIT_THRESHOLD, MISS_THRESHOLD)

\* box_stream.py 327-329: a client opens /video; the route calls
\* mjpeg_generator() anew, whose locals start from lines 234-237.  `gen` is
\* the generator of the connection opened last.
ClassicConnect ==
    /\ script = "box_stream"
    /\ gen' = GenInit
    /\ recent' = <<>>
    /\ cycle' = [at |-> "none", sent |-> FALSE]
    /\ UNCHANGED <<script, order, yvars, pvars>>

\* ================================================== box_stream_yolo.py
\* ---------------------------------------------------------------- bounds
\* Request threads the threaded Flask server runs at once.
NThreads == 2
\* Frames the camera delivers before the model stops capturing.
MaxCam == 3

\* ---------------------------------------------- box_stream_yolo.py CONFIG
FRAME_SKIP == 2
DEBOUNCE_UP == 3
DEBOUNCE_DOWN == 6
\* queue.Queue(maxsize=1)
QMaxSize == 1

Threads == 1..NThreads
\* The routes that use the camera: /video, /video_raw, /snapshot.
Kinds == {"video", "video_raw", "snapshot"}
\* Positions inside annotate_and_decide's debounce (lines 290-300).
DebouncePCs == {"deb", "store", "decide"}

Max(a, b) == IF a >= b THEN a ELSE b

\* The history h has at least n entries and its last n entries all equal v.
AllOf(h, n, v) == Len(h) >= n /\ \A i \in (Len(h) - n + 1)..Len(h) : h[i] = v

Min(a, b) == IF a <= b THEN a ELSE b

\* ------------------------------------------------ the order of the frames
\* Two request threads may be inside annotate_and_decide at once, so the
\* frames the stabilizer is fed are ordered only in part: frame a is before
\* frame b when a's debounce (lines 290-300) ended before b's began. `order`
\* records what every total order of the frames that respects this has in
\* common. A frame's sign is (box_count > 0).

\* The run a change of presence needs before the frame that makes it.
RunBefore(sign) == IF sign THEN DEBOUNCE_UP - 1 ELSE DEBOUNCE_DOWN - 1

OrderInit == [room  |-> [sign \in BOOLEAN |-> 0],
              mine  |-> [t \in Threads |-> 0],
              other |-> [t \in Threads |-> 0]]

\* Thread u's frame has begun its debounce and has not ended it.
Started(u) == th[u].pc \in {"store", "decide"}
Sign(u) == th[u].box_count > 0

\* Thread t's frame of sign s begins its debounce.
\*   room[s]  : least, over the frames of the other sign that have ended (and
\*              the start of the run), of the number of frames of sign s
\*              that had not ended when that frame began;
\*   mine[t]  : frames of sign s, other than t's, that can stand between
\*              every frame of the other sign that ended before t's began
\*              and t's frame;
\*   other[t] : frames of the other sign that had not ended when t's began.
\* Each count stops at the run it is compared with.
OrderStart(o, t, s) ==
    [room  |-> [o.room EXCEPT ![s] = Min(RunBefore(s), @ + 1)],
     mine  |-> [u \in Threads |->
                  IF u = t THEN o.room[s]
                  ELSE IF Started(u) /\ Sign(u) = s
                       THEN Min(RunBefore(s), o.mine[u] + 1)
                       ELSE o.mine[u]],
     other |-> [u \in Threads |->
                  IF u = t
                  THEN Min(RunBefore(~s),
                           Cardinality({v \in Threads \ {t} : Started(v) /\ Sign(v) # s}))
                  ELSE IF Started(u) /\ Sign(u) # s
                       THEN Min(RunBefore(s), o.other[u] + 1)
                       ELSE o.other[u]]]

\* Thread t's frame of sign s ends its debounce.
OrderEnd(o, t, s) ==
    [room  |-> [o.room EXCEPT ![~s] = Min(@, o.other[t])],
     mine  |-> [o.mine EXCEPT ![t] = 0],
     other |-> [o.other EXCEPT ![t] = 0]]

ThreadInit == [kind |-> "none", pc |-> "idle", frame |-> 0, box_count |-> 0, tmp |-> 0]

\* Mutant of Full: the queue never reports full (an unbounded queue).
FullNever(qq) == FALSE

\* queue.Queue.full(): the queue holds maxsize items.
Full(qq) == Len(qq) >= QMaxSize

\* Mutant of PutNowait: a full queue's pending frame is replaced by the new one.
PutNowaitReplace(qq, frame) == IF Full(qq) THEN <<frame>> ELSE Append(qq, frame)

\* queue.Queue.put_nowait(frame): the new queue, or "Full" when it raises queue.Full.
PutNowait(qq, frame) == IF Full(qq) THEN "Full" ELSE Append(qq, frame)

\* A request thread's step: its record becomes r, the rest of th is kept.
Move(t, r) == th' = [th EXCEPT ![t] = r]

\* Flask dispatches a request for /video, /video_raw or /snapshot to a thread.
Request(t) ==
    /\ script = "box_stream_yolo"
    /\ th[t].pc = "idle"
    /\ \E k \in Kinds : Move(t, [th[t] EXCEPT !.kind = k, !.pc = "capture"])
    /\ UNCHANGED <<q, last_result, frame_count, w_pc, hits, misses, present,
                   last_present, warm, cam, newest, oldest, advances, recent, order, took>>
    /\ UNCHANGED <<script, cvars, pvars>>

\* Mutant of Offered: the producer offers only every FRAME_SKIP-th frame.
OfferedThrottled(kind, frame) == kind # "snapshot" /\ frame % FRAME_SKIP = 0

\* Whether the caller hands the captured frame to det_thread.submit: the stream
\* loop does for every frame (328), /snapshot never does (379-381).
Offered(kind, frame) == kind # "snapshot"

\* frame = picam.capture_array() (327, 379), and for an offered frame the test
\* of DetectorThread.submit, line 232: if not self.q.full().
\* The capture reads the camera only, so it is one step with the test.
Capture(t, limit) ==
    /\ script = "box_stream_yolo"
    /\ th[t].pc = "capture"
    /\ cam < limit
    /\ cam' = cam + 1
    /\ IF Offered(th[t].kind, cam + 1)
       THEN /\ newest' = Max(newest, cam + 1)
            /\ Move(t, [th[t] EXCEPT !.frame = cam + 1,
                                     !.pc = IF Full(q) THEN "get" ELSE "put"])
       ELSE /\ UNCHANGED newest
            /\ Move(t, [th[t] EXCEPT !.frame = cam + 1, !.pc = "get"])
    /\ UNCHANGED <<q, last_result, frame_count, w_pc, hits, misses, present,
                   last_present, warm, oldest, advances, recent, order, took>>
    /\ UNCHANGED <<script, cvars, pvars>>

\* DetectorThread.submit, line 233: self.q.put_nowait(bgr). queue.Full is not
\* caught by mjpeg_generator: the generator ends with the exception.
SubmitPut(t) ==
    /\ script = "box_stream_yolo"
    /\ th[t].pc = "put"
    /\ LET r == PutNowait(q, th[t].frame) IN
       /\ q' = IF r = "Full" THEN q ELSE r
       /\ Move(t, [th[t] EXCEPT !.pc = IF r = "Full" THEN "raised" ELSE "get"])
    /\ oldest' = IF q = <<>> THEN th[t].frame ELSE oldest
    /\ UNCHANGED <<last_result, frame_count, w_pc, hits, misses, present,
                   last_present, warm, cam, newest, advances, recent, order, took>>
    /\ UNCHANGED <<script, cvars, pvars>>

\* dets = det_thread.get() if annotated else []  (330, 381). Without annotation
\* the loop draws the HUD, encodes, yields and captures again.
GetResult(t) ==
    /\ script = "box_stream_yolo"
    /\ th[t].pc = "get"
    /\ Move(t, IF th[t].kind = "video_raw"
               THEN [th[t] EXCEPT !.pc = "capture", !.frame = 0]
               ELSE [th[t] EXCEPT !.pc = "warm", !.frame = 0,
                                  !.box_count = last_result])
    /\ UNCHANGED <<q, last_result, frame_count, w_pc, hits, misses, present,
                   last_present, warm, cam, newest, oldest, advances, recent, order, took>>
    /\ UNCHANGED <<script, cvars, pvars>>

\* Where a caller of annotate_and_decide goes when it returns: the stream loop
\* yields and captures again, /snapshot answers and its thread is free.
AfterReturn(kind) == IF kind = "snapshot" THEN "idle" ELSE "capture"

\* last_present after the caller handled the returned now_present: the stream
\* loop logs a change and stores it (335-342), /snapshot does not.
Logged(kind, now_present) == IF kind = "snapshot" THEN last_present ELSE now_present

\* annotate_and_decide 286: (time.time() - t0) < CONFIG["WARMUP_SEC"]
InWarmup(w) == w

\* annotate_and_decide 285-287: in the warm-up window return (bgr, 0, False)
\* without touching the counters; else go on to the debounce.
WarmTest(t) ==
    /\ script = "box_stream_yolo"
    /\ th[t].pc = "warm"
    /\ IF InWarmup(warm)
       THEN /\ Move(t, [th[t] EXCEPT !.pc = AfterReturn(th[t].kind), !.box_count = 0])
            /\ last_present' = Logged(th[t].kind, FALSE)
       ELSE /\ Move(t, [th[t] EXCEPT !.pc = "deb"])
            /\ UNCHANGED last_present
    /\ UNCHANGED <<q, last_result, frame_count, w_pc, hits, misses, present,
                   warm, cam, newest, oldest, advances, recent, order, took>>
    /\ UNCHANGED <<script, cvars, pvars>>

\* annotate_and_decide 290-291 / 293-294: the branch on box_count and the load
\* of the counter that `+= 1` is about to write.
DebLoad(t) ==
    /\ script = "box_stream_yolo"
    /\ th[t].pc = "deb"
    /\ Move(t, [th[t] EXCEPT !.pc = "store",
                             !.tmp = IF th[t].box_count > 0 THEN hits ELSE misses])
    /\ order' = OrderStart(order, t, Sign(t))
    /\ UNCHANGED <<q, last_result, frame_count, w_pc, hits, misses, present,
                   last_present, warm, cam, newest, oldest, advances, recent, took>>
    /\ UNCHANGED <<script, cvars, pvars>>

\* annotate_and_decide 291-292 / 294-295: the store of `hits += 1` with
\* misses = 0, or of `misses += 1` with hits = 0.
DebStore(t) ==
    /\ script = "box_stream_yolo"
    /\ th[t].pc = "store"
    /\ IF th[t].box_count > 0
       THEN hits' = th[t].tmp + 1 /\ misses' = 0
       ELSE misses' = th[t].tmp + 1 /\ hits' = 0
    /\ advances' = advances + 1
    /\ Move(t, [th[t] EXCEPT !.pc = "decide", !.tmp = 0])
    /\ recent' = LastN(Append(recent, th[t].box_count > 0), DEBOUNCE_DOWN)
    /\ UNCHANGED <<q, last_result, frame_count, w_pc, present,
                   last_present, warm, cam, newest, oldest, order, took>>
    /\ UNCHANGED <<script, cvars, pvars>>

\* annotate_and_decide 297-300: the two threshold tests, in sequence.
Decide(p, h, m) ==
    LET p1 == IF ~p /\ h >= DEBOUNCE_UP THEN TRUE ELSE p
    IN  IF p1 /\ m >= DEBOUNCE_DOWN THEN FALSE ELSE p1

\* annotate_and_decide 297-302: the threshold tests and return bgr, box_count,
\* present; then the caller (335-342 in the stream loop, 382 in /snapshot).
DebDecide(t) ==
    /\ script = "box_stream_yolo"
    /\ th[t].pc = "decide"
    /\ present' = Decide(present, hits, misses)
    /\ last_present' = Logged(th[t].kind, present')
    /\ Move(t, [th[t] EXCEPT !.pc = AfterReturn(th[t].kind), !.box_count = 0])
    /\ order' = OrderEnd(order, t, Sign(t))
    /\ UNCHANGED <<q, last_result, frame_count, w_pc, hits, misses,
                   warm, cam, newest, oldest, advances, recent, took>>
    /\ UNCHANGED <<script, cvars, pvars>>

\* Mutant of RunsInference: the worker never skips a dequeued frame.
RunsInferenceAlways(n) == TRUE

\* DetectorThread.run 219: inference unless frame_count % (FRAME_SKIP + 1) != 0
RunsInference(n) == n % (FRAME_SKIP + 1) = 0

\* DetectorThread.run 215-222: bgr = self.q.get(); frame_count += 1; skip test.
WorkerGet ==
    /\ script = "box_stream_yolo"
    /\ w_pc = "get"
    /\ q # <<>>
    /\ q' = Tail(q)
    /\ frame_count' = frame_count + 1
    /\ w_pc' = IF RunsInference(frame_count + 1) THEN "infer" ELSE "get"
    /\ oldest' = 0
    /\ took' = [any |-> TRUE, newest |-> Head(q) = newest, oldest |-> Head(q) = oldest]
    /\ UNCHANGED <<last_result, hits, misses, present, last_present, warm, cam,
                   th, newest, advances, recent, order>>
    /\ UNCHANGED <<script, cvars, pvars>>

\* DetectorThread.run 223-229: dets = self.yolo.infer(...); self.last_result = dets
WorkerInfer ==
    /\ script = "box_stream_yolo"
    /\ w_pc = "infer"
    /\ \E n \in RawCounts : last_result' = n
    /\ w_pc' = "get"
    /\ UNCHANGED <<q, frame_count, hits, misses, present, last_present, warm,
                   cam, th, newest, oldest, advances, recent, order, took>>
    /\ UNCHANGED <<script, cvars, pvars>>

\* Time passes WARMUP_SEC after t0 (257): the warm-up window ends, once.
WarmupEnds ==
    /\ script = "box_stream_yolo"
    /\ warm
    /\ warm' = FALSE
    /\ UNCHANGED <<q, last_result, frame_count, w_pc, hits, misses, present,
                   last_present, cam, th, newest, oldest, advances, recent, order, took>>
    /\ UNCHANGED <<script, cvars, pvars>>

\* ------------------------------------------------------------------ faults
\* picam.capture_array() raises (327, 379). Neither mjpeg_generator nor
\* snapshot has a handler: the generator (the request) ends with the exception.
CaptureFails(t) ==
    /\ script = "box_stream_yolo"
    /\ th[t].pc = "capture"
    /\ Move(t, [th[t] EXCEPT !.pc = "raised"])
    /\ UNCHANGED <<q, last_result, frame_count, w_pc, hits, misses, present,
                   last_present, warm, cam, newest, oldest, advances, recent, order, took>>
    /\ UNCHANGED <<script, cvars, pvars>>

\* annotate_and_decide raises while it filters and draws the detections
\* (264-283), before the stabilizer step; same missing handler (334, 382).
AnnotateFails(t) ==
    /\ script = "box_stream_yolo"
    /\ th[t].pc = "warm"
    /\ Move(t, [th[t] EXCEPT !.pc = "raised"])
    /\ UNCHANGED <<q, last_result, frame_count, w_pc, hits, misses, present,
                   last_present, warm, cam, newest, oldest, advances, recent, order, took>>
    /\ UNCHANGED <<script, cvars, pvars>>

\* DetectorThread.run 223: self.yolo.infer raises. The try of run (214-217)
\* covers q.get only, so the exception leaves run and the thread ends.
WorkerInferFails ==
    /\ script = "box_stream_yolo"
    /\ w_pc = "infer"
    /\ w_pc' = "dead"
    /\ UNCHANGED <<q, last_result, frame_count, hits, misses, present, last_present,
                   warm, cam, th, newest, oldest, advances, recent, order, took>>
    /\ UNCHANGED <<script, cvars, pvars>>

\* One step of one request thread.
ThreadStep(t, limit) ==
    \/ Request(t)
    \/ Capture(t, limit)
    \/ SubmitPut(t)
    \/ GetResult(t)
    \/ WarmTest(t)
    \/ DebLoad(t)
    \/ DebStore(t)
    \/ DebDecide(t)

\* ================================================================ the system
\* The thresholds of box_stream.py 58-60.
Thresholds == [warm |-> STARTUP_WARMUP_FRAMES, hit |-> HIT_THRESHOLD,
               miss |-> MISS_THRESHOLD]

\* box_stream_yolo.py 37-40: CONFIG["MODEL_PATHS"].
MODEL_PATHS == <<"models/yolov8n_boxes.onnx", "models/yolov8n.onnx">>

\* The module has started with the files of MODEL_PATHS in place and serves.
Served == [stage |-> "serving", paths |-> MODEL_PATHS,
           files |-> {MODEL_PATHS[1], MODEL_PATHS[2]},
           model |-> MODEL_PATHS[1], worker |-> "started", cfg |-> Thresholds]

NoCall == [fn |-> "none"]

\* The state of a script once app.run serves requests, start-up aside.
Constructed ==
    /\ script \in {"box_stream", "box_stream_yolo"}
    /\ gen = GenInit
    /\ cycle = [at |-> "none", sent |-> FALSE]
    /\ recent = <<>>
    /\ order = OrderInit
    /\ q = <<>>
    /\ last_result = 0
    /\ frame_count = 0
    /\ w_pc = "get"
    /\ hits = 0
    /\ misses = 0
    /\ present = FALSE
    /\ last_present = FALSE
    /\ warm = TRUE
    /\ cam = 0
    /\ th = [t \in Threads |-> ThreadInit]
    /\ newest = 0
    /\ oldest = 0
    /\ took = [any |-> FALSE, newest |-> TRUE, oldest |-> TRUE]
    /\ advances = 0

Init ==
    /\ Constructed
    /\ boot = Served
    /\ call = NoCall

Next ==
    \/ ClassicFrame
    \/ ClassicDropped
    \/ ClassicCaptureFails
    \/ ClassicDetectFails
    \/ ClassicConnect
    \/ \E t \in Threads : ThreadStep(t, MaxCam)
    \/ WorkerGet
    \/ WorkerInfer
    \/ WarmupEnds

Spec == Init /\ [][Next]_vars

\* ================================================ the spec's example scenario
\* spec.md's example runs the stabilizer of box_stream.py 251-267 with its own
\* thresholds; the raw counts are drawn frame by frame, the example's among them.
ExampleCfg == [warm |-> 5, hit |-> 3, miss |-> 6]
ExampleCounts == <<0, 0, 0, 0, 0, 1, 1, 1, 0, 0, 0, 0, 0, 0, 0>>
\* What the stabilizer reads of the example's first n counts.
ExamplePrefix(n) == [i \in 1..n |-> ExampleCounts[i] > 0]

ExampleInit == Init /\ script = "box_stream"

ExampleFrame ==
    /\ gen.frame_i < Len(ExampleCounts)
    /\ \E raw_count \in RawCounts :
          LoopFrame(raw_count, ExampleCfg.warm, ExampleCfg.hit, ExampleCfg.miss,
                    Len(ExampleCounts))

SpecExample == ExampleInit /\ [][ExampleFrame]_vars

\* ============================== two /video connections, one paused in `+= 1`
\* The threaded server (412) runs one mjpeg_generator per /video connection.
\* SpecRace keeps, of the runs of box_stream_yolo.py, those in which
\*   - every request is for /video and arrives after the warm-up window,
\*   - a request thread is overtaken by another one only while it stands
\*     between the load and the store of `hits += 1` / `misses += 1`.
\* Every run of SpecRace is a run of the script; the restriction only drops runs.

\* Frames the camera delivers before SpecRace stops capturing.
RaceCam == 10

\* Thread t is between its capture and its return from annotate_and_decide.
Busy(t) == th[t].pc \notin {"idle", "capture", "raised"}

RaceView ==
    /\ \A t \in Threads : th[t].kind \in {"none", "video"}
    /\ warm => \A t \in Threads : th[t].pc = "idle"
    /\ \A t, u \in Threads :
          (t # u /\ Busy(t) /\ Busy(u)) => (th[t].pc = "store" \/ th[u].pc = "store")

RaceInit == Init /\ script = "box_stream_yolo"

RaceNext ==
    \/ \E t \in Threads : Request(t) /\ RaceView'
    \/ \E t \in Threads : Capture(t, RaceCam) /\ RaceView'
    \/ \E t \in Threads : SubmitPut(t) /\ RaceView'
    \/ \E t \in Threads : GetResult(t) /\ RaceView'
    \/ \E t \in Threads : WarmTest(t) /\ RaceView'
    \/ \E t \in Threads : DebLoad(t) /\ RaceView'
    \/ \E t \in Threads : DebStore(t) /\ RaceView'
    \/ \E t \in Threads : DebDecide(t) /\ RaceView'
    \/ WorkerGet /\ RaceView'
    \/ WorkerInfer /\ RaceView'
    \/ WarmupEnds /\ RaceView'

SpecRace == RaceInit /\ [][RaceNext]_vars

\* ===================================================== runs with faults
\* The neural script with one connection at a time, where a capture, the
\* annotation or an inference may raise.
FaultCam == 7

\* Thread t serves no request: it waits for one, or its request has ended.
Free(t) == th[t].pc \in {"idle", "raised"}

FaultView == \A t, u \in Threads : t # u => (Free(t) \/ Free(u))

FaultInit == Init /\ script = "box_stream_yolo"

FaultNext ==
    \/ \E t \in Threads : Request(t) /\ FaultView'
    \/ \E t \in Threads : Capture(t, FaultCam)
    \/ \E t \in Threads : SubmitPut(t)
    \/ \E t \in Threads : GetResult(t)
    \/ \E t \in Threads : WarmTest(t)
    \/ \E t \in Threads : DebLoad(t)
    \/ \E t \in Threads : DebStore(t)
    \/ \E t \in Threads : DebDecide(t)
    \/ \E t \in Threads : CaptureFails(t)
    \/ \E t \in Threads : AnnotateFails(t)
    \/ WorkerGet
    \/ WorkerInfer
    \/ WorkerInferFails
    \/ WarmupEnds

SpecFaults == FaultInit /\ [][FaultNext]_vars

\* ============================================================== start-up
\* Module start-up of either script, then the script serving a few frames.
\* MODEL_PATHS, the files on disk and the thresholds are what the deployment
\* provides; the pipelines read them, start-up as coded below.
MaxPaths == 2
StartCam == 3
StartFrames == 4

PathLists == UNION {[1..n -> {MODEL_PATHS[1], MODEL_PATHS[2]}] : n \in 0..MaxPaths}

\* Thresholds a deployment may have edited in (box_stream.py 58-60).
ThresholdSets == [warm : {-1, 1}, hit : {0, 2}, miss : {0, 2}]

\* What spec.md calls an in-range configuration of the stabilizer.
ValidThresholds(c) == c.warm >= 0 /\ c.hit >= 1 /\ c.miss >= 1

\* Mutant of SelectModel: the last path that exists wins.
RECURSIVE SelectModelLast(_, _)
SelectModelLast(model_paths, files) ==
    IF model_paths = <<>> THEN "None"
    ELSE LET rest == SelectModelLast(Tail(model_paths), files) IN
         IF rest # "None" THEN rest
         ELSE IF Head(model_paths) \in files THEN Head(model_paths) ELSE "None"

\* YOLOv8ONNX.__init__ 111-116: model = None; for mp in model_paths:
\* if mp.exists(): model = mp; break.
RECURSIVE SelectModel(_, _)
SelectModel(model_paths, files) ==
    IF model_paths = <<>> THEN "None"
    ELSE IF Head(model_paths) \in files THEN Head(model_paths)
    ELSE SelectModel(Tail(model_paths), files)

StartInit ==
    /\ Constructed
    /\ call = NoCall
    /\ \E ps \in PathLists, fs \in SUBSET {MODEL_PATHS[1], MODEL_PATHS[2]},
          c \in ThresholdSets :
          boot = [stage |-> "import",
                  paths |-> IF script = "box_stream_yolo" THEN ps ELSE <<>>,
                  files |-> IF script = "box_stream_yolo" THEN fs ELSE {},
                  model |-> "None", worker |-> "none",
                  cfg |-> IF script = "box_stream" THEN c ELSE Thresholds]

\* box_stream_yolo.py 248: YOLO = YOLOv8ONNX(CONFIG["MODEL_PATHS"]); with no
\* model found the constructor raises FileNotFoundError (117-121) and the
\* import of the module ends there.
LoadModel ==
    /\ script = "box_stream_yolo"
    /\ boot.stage = "import"
    /\ LET model == SelectModel(boot.paths, boot.files) IN
       boot' = IF model = "None"
               THEN [boot EXCEPT !.stage = "failed"]
               ELSE [boot EXCEPT !.stage = "model", !.model = model]
    /\ UNCHANGED <<script, recent, order, cvars, yvars, call>>

\* box_stream_yolo.py 249: det_thread = DetectorThread(YOLO, CONFIG["CAP_SIZE"])
CreateWorker ==
    /\ script = "box_stream_yolo"
    /\ boot.stage = "model"
    /\ boot' = [boot EXCEPT !.stage = "worker", !.worker = "created"]
    /\ UNCHANGED <<script, recent, order, cvars, yvars, call>>

\* box_stream_yolo.py 250: det_thread.start()
StartWorker ==
    /\ script = "box_stream_yolo"
    /\ boot.stage = "worker"
    /\ boot' = [boot EXCEPT !.stage = "main", !.worker = "started"]
    /\ UNCHANGED <<script, recent, order, cvars, yvars, call>>

\* app.run (box_stream_yolo.py 408-412, box_stream.py last line): requests are
\* served from here on. Nothing between the import and app.run reads the
\* thresholds: box_stream.py goes from its constants straight to the routes.
Serve ==
    /\ boot.stage = IF script = "box_stream_yolo" THEN "main" ELSE "import"
    /\ boot' = [boot EXCEPT !.stage = "serving"]
    /\ UNCHANGED <<script, recent, order, cvars, yvars, call>>

Serving == boot.stage = "serving"

\* The classical loop under the thresholds in force.
StartFrame ==
    /\ Serving
    /\ gen.frame_i < StartFrames
    /\ \E raw_count \in RawCounts :
          LoopFrame(raw_count, boot.cfg.warm, boot.cfg.hit, boot.cfg.miss,
                    MISS_THRESHOLD)

StartNext ==
    \/ LoadModel
    \/ CreateWorker
    \/ StartWorker
    \/ Serve
    \/ StartFrame
    \/ \E t \in Threads : Serving /\ Request(t) /\ FaultView'
    \/ \E t \in Threads : Serving /\ Capture(t, StartCam)
    \/ \E t \in Threads : Serving /\ SubmitPut(t)
    \/ \E t \in Threads : Serving /\ GetResult(t)
    \/ \E t \in Threads : Serving /\ WarmTest(t)
    \/ \E t \in Threads : Serving /\ DebLoad(t)
    \/ \E t \in Threads : Serving /\ DebStore(t)
    \/ \E t \in Threads : Serving /\ DebDecide(t)
    \/ boot.worker = "started" /\ WorkerGet
    \/ boot.worker = "started" /\ WorkerInfer
    \/ WarmupEnds

SpecStart == StartInit /\ [][StartNext]_vars

\* =================================================================== nms
\* box_stream_yolo.py 83-104 on boxes with integer pixel corners (x1 <= x2,
\* y1 <= y2, both inclusive), integer scores and a threshold in percent. On
\* such inputs float32 computes areas and intersections exactly.
MaxBoxes == 3
\* 1e-7 of line 101, as its inverse.
EpsInv == 10000000

Coords == 0..1
ScoreSet == {1, 2}
ThreshSet == {-10, 0, 45, 50, 100}
\* Boxes in the two top rows of the grid that reach the top row.
BoxSet == {b \in [x1 : Coords, y1 : {0}, x2 : Coords, y2 : Coords] :
              b.x1 <= b.x2 /\ b.y1 <= b.y2}

\* nms 88: areas = (x2 - x1 + 1) * (y2 - y1 + 1)
Area(b) == (b.x2 - b.x1 + 1) * (b.y2 - b.y1 + 1)

\* nms 94-100: inter = max(0, xx2 - xx1 + 1) * max(0, yy2 - yy1 + 1)
Inter(a, b) ==
    LET xx1 == Max(a.x1, b.x1)
        yy1 == Max(a.y1, b.y1)
        xx2 == Min(a.x2, b.x2)
        yy2 == Min(a.y2, b.y2)
    IN  Max(0, xx2 - xx1 + 1) * Max(0, yy2 - yy1 + 1)

\* Mutant of Survives: no box is ever suppressed.
SurvivesAll(a, b, pct) == TRUE

\* nms 101-102: iou = inter / (areas[i] + areas[j] - inter + 1e-7), kept in
\* `order` when iou <= iou_thresh, with iou_thresh = pct / 100. In integers:
\* inter * 100 - pct * union <= pct * 1e-7, and the left side is an integer.
Survives(a, b, pct) ==
    LET inter == Inter(a, b)
        union == Area(a) + Area(b) - inter
    IN  inter * 100 - pct * union <= pct \div EpsInv

\* Mutant of DescOrders: the indices are taken in list order, unsorted.
ListOrder(scores) == {[k \in 1..Len(scores) |-> k]}

\* nms 89: order = scores.argsort()[::-1]. argsort's default sort is not
\* stable, so equal scores may come out in either order.
DescOrders(scores) ==
    {p \in [1..Len(scores) -> 1..Len(scores)] :
        /\ \A a, b \in 1..Len(scores) : a # b => p[a] # p[b]
        /\ \A a, b \in 1..Len(scores) : a < b => scores[p[a]] >= scores[p[b]]}

\* The entries j of order[1:] whose box survives box i, in order.
RECURSIVE Remaining(_, _, _, _)
Remaining(rest, i, boxes, pct) ==
    IF rest = <<>> THEN <<>>
    ELSE LET tl == Remaining(Tail(rest), i, boxes, pct) IN
         IF Survives(boxes[i], boxes[Head(rest)], pct)
         THEN <<Head(rest)>> \o tl ELSE tl

NmsInit ==
    /\ Constructed
    /\ script = "box_stream_yolo"
    /\ boot = Served
    /\ \E n \in 0..MaxBoxes :
         \E boxes \in [1..n -> BoxSet], scores \in [1..n -> ScoreSet],
            pct \in ThreshSet :
            call = [fn |-> "nms", pc |-> "enter", boxes |-> boxes,
                    scores |-> scores, iou_thresh |-> pct,
                    order |-> <<>>, keep |-> <<>>]

\* nms 84-90: the empty input returns []; otherwise sort and start the loop.
NmsEnter ==
    /\ call.fn = "nms" /\ call.pc = "enter"
    /\ IF Len(call.boxes) = 0
       THEN call' = [call EXCEPT !.pc = "done"]
       ELSE \E p \in DescOrders(call.scores) :
               call' = [call EXCEPT !.pc = "loop", !.order = p]
    /\ UNCHANGED <<script, recent, order, cvars, yvars, boot>>

\* nms 91-103: one iteration of `while order.size > 0`.
NmsStep ==
    /\ call.fn = "nms" /\ call.pc = "loop"
    /\ Len(call.order) > 0
    /\ LET i == call.order[1] IN
       call' = [call EXCEPT
                  !.keep = Append(call.keep, i),
                  !.order = Remaining(Tail(call.order), i, call.boxes,
                                      call.iou_thresh)]
    /\ UNCHANGED <<script, recent, order, cvars, yvars, boot>>

\* nms 104: return keep
NmsReturn ==
    /\ call.fn = "nms" /\ call.pc = "loop"
    /\ Len(call.order) = 0
    /\ call' = [call EXCEPT !.pc = "done"]
    /\ UNCHANGED <<script, recent, order, cvars, yvars, boot>>

NmsNext == NmsEnter \/ NmsStep \/ NmsReturn

SpecNms == NmsInit /\ [][NmsNext]_vars

\* ============================================================= letterbox
\* letterbox (69-78) and its inverse in infer (174-182) on a frame of H rows
\* and W columns. Coordinates are exact fractions: a canvas coordinate is kept
\* as its numerator over max(H, W), a recovered one as its numerator over
\* INFER_SIZE. float32 keeps values below 2^11 to better than 2^-12 pixel.
MaxSide == 6
INFER_SIZE == 640

\* Frame sides: small ones and the capture sizes of the two scripts.
Sides == (1..MaxSide) \cup {480, 640, 720, 1280}

\* Positions along a side of n pixels a box corner is drawn from.
Marks(n) == {0, 1, n \div 2, n - 1, n} \cap (0..n)

\* Python's round() of n / d for d > 0: to nearest, halves to even.
Round(n, d) ==
    LET fl == n \div d
        r2 == 2 * (n % d)
    IN  IF r2 < d THEN fl
        ELSE IF r2 > d THEN fl + 1
        ELSE IF fl % 2 = 0 THEN fl ELSE fl + 1

\* Mutant of Longest: the inverse divides by INFER_SIZE / min(H, W).
Shortest(H, W) == Min(H, W)

\* infer 179: max(H, W); letterbox 71: min(new / h, new / w) = new / max(h, w).
Longest(H, W) == Max(H, W)

\* v clipped to lo..hi (numpy clip).
Clip(v, lo, hi) == Min(Max(v, lo), hi)

LbInit ==
    /\ Constructed
    /\ script = "box_stream_yolo"
    /\ boot = Served
    /\ \E H \in Sides, W \in Sides :
         \E x1 \in Marks(W), x2 \in Marks(W), y1 \in Marks(H), y2 \in Marks(H) :
            /\ x1 <= x2 /\ y1 <= y2
            /\ call = [fn |-> "letterbox", pc |-> "forward", H |-> H, W |-> W,
                       box |-> [x1 |-> x1, y1 |-> y1, x2 |-> x2, y2 |-> y2],
                       nh |-> 0, nw |-> 0, left |-> 0, top |-> 0,
                       canvas |-> [x1 |-> 0, y1 |-> 0, x2 |-> 0, y2 |-> 0],
                       back |-> [x1 |-> 0, y1 |-> 0, x2 |-> 0, y2 |-> 0]]

\* letterbox 70-78: scale = new / max(h, w); nh, nw = round(h * scale),
\* round(w * scale); top, left = (new - nh) // 2, (new - nw) // 2. The box goes
\* to the canvas as x * scale + left, y * scale + top (numerators over max(h, w)).
LbForward ==
    /\ call.fn = "letterbox" /\ call.pc = "forward"
    /\ LET m == Max(call.H, call.W)
           nh == Round(call.H * INFER_SIZE, m)
           nw == Round(call.W * INFER_SIZE, m)
           top == (INFER_SIZE - nh) \div 2
           left == (INFER_SIZE - nw) \div 2
       IN  call' = [call EXCEPT
                      !.pc = "inverse", !.nh = nh, !.nw = nw,
                      !.left = left, !.top = top,
                      !.canvas = [x1 |-> call.box.x1 * INFER_SIZE + left * m,
                                  y1 |-> call.box.y1 * INFER_SIZE + top * m,
                                  x2 |-> call.box.x2 * INFER_SIZE + left * m,
                                  y2 |-> call.box.y2 * INFER_SIZE + top * m]]
    /\ UNCHANGED <<script, recent, order, cvars, yvars, boot>>

\* infer 174-182: x -= dx, y -= dy, divide by INFER_SIZE / max(H, W), clip x to
\* 0..W-1 and y to 0..H-1 (numerators over INFER_SIZE * max(H, W)).
LbInverse ==
    /\ call.fn = "letterbox" /\ call.pc = "inverse"
    /\ LET m == Max(call.H, call.W)
           k == Longest(call.H, call.W)
           dx == call.left
           dy == call.top
           ux(v) == Clip((v - dx * m) * k, 0, (call.W - 1) * INFER_SIZE * m)
           uy(v) == Clip((v - dy * m) * k, 0, (call.H - 1) * INFER_SIZE * m)
       IN  call' = [call EXCEPT
                      !.pc = "done",
                      !.back = [x1 |-> ux(call.canvas.x1), y1 |-> uy(call.canvas.y1),
                                x2 |-> ux(call.canvas.x2), y2 |-> uy(call.canvas.y2)]]
    /\ UNCHANGED <<script, recent, order, cvars, yvars, boot>>

LbNext == LbForward \/ LbInverse

SpecLetterbox == LbInit /\ [][LbNext]_vars

\* ======================================= the debounce, one global at a time
\* annotate_and_decide 289-302 again, with one step for each statement that
\* reads or writes a module global: nothing locks hits, misses and present,
\* and the threaded server may switch request threads between any two.
\* SpecSteps keeps the runs in which every request is for /video and comes
\* after the warm-up window, and a thread is overtaken only before its reset
\* (292 / 295) or before its second threshold test (299).
StepCam == 7

\* 290-291 / 293-294: branch on box_count, load the counter for `+= 1`.
LoadCounter(t) ==
    /\ script = "box_stream_yolo"
    /\ th[t].pc = "deb"
    /\ Move(t, [th[t] EXCEPT !.pc = "store",
                             !.tmp = IF th[t].box_count > 0 THEN hits ELSE misses])
    /\ UNCHANGED <<q, last_result, frame_count, w_pc, hits, misses, present,
                   last_present, warm, cam, newest, oldest, advances, recent, order, took>>
    /\ UNCHANGED <<script, cvars, pvars>>

\* 291 / 294: the store of hits += 1 or of misses += 1.
StoreCounter(t) ==
    /\ script = "box_stream_yolo"
    /\ th[t].pc = "store"
    /\ IF th[t].box_count > 0
       THEN hits' = th[t].tmp + 1 /\ UNCHANGED misses
       ELSE misses' = th[t].tmp + 1 /\ UNCHANGED hits
    /\ Move(t, [th[t] EXCEPT !.pc = "reset", !.tmp = 0])
    /\ UNCHANGED <<q, last_result, frame_count, w_pc, present,
                   last_present, warm, cam, newest, oldest, advances, recent, order, took>>
    /\ UNCHANGED <<script, cvars, pvars>>

\* 292 / 295: misses = 0 or hits = 0.
ResetOther(t) ==
    /\ script = "box_stream_yolo"
    /\ th[t].pc = "reset"
    /\ IF th[t].box_count > 0
       THEN misses' = 0 /\ UNCHANGED hits
       ELSE hits' = 0 /\ UNCHANGED misses
    /\ Move(t, [th[t] EXCEPT !.pc = "up"])
    /\ UNCHANGED <<q, last_result, frame_count, w_pc, present,
                   last_present, warm, cam, newest, oldest, advances, recent, order, took>>
    /\ UNCHANGED <<script, cvars, pvars>>

\* 297-298: if not present and hits >= DEBOUNCE_UP: present = True
TestUp(t) ==
    /\ script = "box_stream_yolo"
    /\ th[t].pc = "up"
    /\ present' = IF ~present /\ hits >= DEBOUNCE_UP THEN TRUE ELSE present
    /\ Move(t, [th[t] EXCEPT !.pc = "down"])
    /\ UNCHANGED <<q, last_result, frame_count, w_pc, hits, misses,
                   last_present, warm, cam, newest, oldest, advances, recent, order, took>>
    /\ UNCHANGED <<script, cvars, pvars>>

\* 299-302: if present and misses >= DEBOUNCE_DOWN: present = False; return;
\* then the caller (335-342).
TestDown(t) ==
    /\ script = "box_stream_yolo"
    /\ th[t].pc = "down"
    /\ present' = IF present /\ misses >= DEBOUNCE_DOWN THEN FALSE ELSE present
    /\ last_present' = Logged(th[t].kind, present')
    /\ Move(t, [th[t] EXCEPT !.pc = AfterReturn(th[t].kind), !.box_count = 0])
    /\ UNCHANGED <<q, last_result, frame_count, w_pc, hits, misses,
                   warm, cam, newest, oldest, advances, recent, order, took>>
    /\ UNCHANGED <<script, cvars, pvars>>

StepsView ==
    /\ \A t \in Threads : th[t].kind \in {"none", "video"}
    /\ warm => \A t \in Threads : th[t].pc = "idle"
    /\ \A t, u \in Threads :
          (t # u /\ Busy(t) /\ Busy(u))
             => (th[t].pc \in {"reset", "down"} \/ th[u].pc \in {"reset", "down"})

StepsInit == Init /\ script = "box_stream_yolo"

StepsNext ==
    \/ \E t \in Threads : Request(t) /\ StepsView'
    \/ \E t \in Threads : Capture(t, StepCam) /\ StepsView'
    \/ \E t \in Threads : SubmitPut(t) /\ StepsView'
    \/ \E t \in Threads : GetResult(t) /\ StepsView'
    \/ \E t \in Threads : WarmTest(t) /\ StepsView'
    \/ \E t \in Threads : LoadCounter(t) /\ StepsView'
    \/ \E t \in Threads : StoreCounter(t) /\ StepsView'
    \/ \E t \in Threads : ResetOther(t) /\ StepsView'
    \/ \E t \in Threads : TestUp(t) /\ StepsView'
    \/ \E t \in Threads : TestDown(t) /\ StepsView'
    \/ WorkerGet /\ StepsView'
    \/ WorkerInfer /\ StepsView'
    \/ WarmupEnds /\ StepsView'

SpecSteps == StepsInit /\ [][StepsNext]_vars

\* ============================================================ find_boxes
\* box_stream.py 174-223 on the contours cv2.findContours returned. A contour
\* is what the loop reads of it: its area (181), whether approxPolyDP gives a
\* convex quad (189), the bounding rectangle w x h of that quad (190) and the
\* sides rw x rh of its minimum-area rectangle (203).
MaxContours == 3

\* Frame sizes W x H; min_area and max_area are 1 % and 99 % of W * H.
Frames == {[W |-> 10, H |-> 10], [W |-> 20, H |-> 10]}

ContourSet ==
    { [area |-> 0,   quad |-> FALSE, w |-> 1,  h |-> 1,  rw |-> 1,  rh |-> 1],
      [area |-> 100, quad |-> TRUE,  w |-> 10, h |-> 10, rw |-> 10, rh |-> 10],
      [area |-> 40,  quad |-> TRUE,  w |-> 5,  h |-> 8,  rw |-> 5,  rh |-> 8],
      [area |-> 20,  quad |-> TRUE,  w |-> 5,  h |-> 5,  rw |-> 4,  rh |-> 5],
      [area |-> 20,  quad |-> TRUE,  w |-> 7,  h |-> 7,  rw |-> 5,  rh |-> 6],
      [area |-> 20,  quad |-> TRUE,  w |-> 2,  h |-> 13, rw |-> 2,  rh |-> 13],
      [area |-> 30,  quad |-> FALSE, w |-> 8,  h |-> 8,  rw |-> 6,  rh |-> 6],
      [area |-> 30,  quad |-> FALSE, w |-> 8,  h |-> 9,  rw |-> 5,  rh |-> 8],
      [area |-> 40,  quad |-> FALSE, w |-> 9,  h |-> 9,  rw |-> 7,  rh |-> 7],
      [area |-> 20,  quad |-> FALSE, w |-> 8,  h |-> 8,  rw |-> 7,  rh |-> 7],
      [area |-> 60,  quad |-> FALSE, w |-> 10, h |-> 10, rw |-> 10, rh |-> 10] }

\* find_boxes 182: not (area < min_area or area > max_area), in hundredths.
AreaInRange(a, f) == ~(a * 100 < f.W * f.H \/ a * 100 > 99 * f.W * f.H)

\* find_boxes 193-195: 0.2 < aspect < 6.0 and rectangularity > 0.50 for the
\* bounding rectangle; aspect = max / min.
QuadPasses(c) ==
    /\ 5 * Max(c.w, c.h) > Min(c.w, c.h)
    /\ Max(c.w, c.h) < 6 * Min(c.w, c.h)
    /\ 2 * c.area > c.w * c.h

\* find_boxes 204-211: the rotated rectangle has sides >= 1, an area in
\* range, 0.2 < aspect < 6.0 and rectangularity > 0.45.
RotPasses(c, f) ==
    /\ ~(c.rw < 1 \/ c.rh < 1)
    /\ AreaInRange(c.rw * c.rh, f)
    /\ 5 * Max(c.rw, c.rh) > Min(c.rw, c.rh)
    /\ Max(c.rw, c.rh) < 6 * Min(c.rw, c.rh)
    /\ 100 * c.area > 45 * c.rw * c.rh

\* Mutant of FinalCount: a rotated candidate adds one to the quad count.
FinalCountAdds(detections, best) ==
    IF best # 0 THEN detections + 1 ELSE detections

\* find_boxes 216-223: the count returned; best = 0 stands for None.
FinalCount(detections, best) ==
    IF detections = 0 /\ best # 0 THEN 1 ELSE detections

FbInit ==
    /\ Constructed
    /\ script = "box_stream"
    /\ boot = Served
    /\ \E n \in 0..MaxContours :
         \E cnts \in [1..n -> ContourSet], f \in Frames :
            call = [fn |-> "find_boxes", pc |-> "loop", frame |-> f,
                    cnts |-> cnts, i |-> 1, detections |-> 0, best |-> 0,
                    rects |-> 0, rotated |-> 0, count |-> 0]

\* find_boxes 180-213: one iteration of `for c in cnts`. rects counts the
\* rectangles drawn at 198.
FbContour ==
    /\ call.fn = "find_boxes" /\ call.pc = "loop"
    /\ call.i <= Len(call.cnts)
    /\ LET c == call.cnts[call.i]
           next == [call EXCEPT !.i = call.i + 1]
       IN  call' =
             IF ~AreaInRange(c.area, call.frame) THEN next
             ELSE IF c.quad /\ (c.h = 0 \/ c.w = 0) THEN next
             ELSE IF c.quad /\ QuadPasses(c)
                  THEN [next EXCEPT !.detections = call.detections + 1,
                                    !.rects = call.rects + 1]
             ELSE IF RotPasses(c, call.frame)
                     /\ (call.best = 0 \/ c.area > call.cnts[call.best].area)
                  THEN [next EXCEPT !.best = call.i]
             ELSE next
    /\ UNCHANGED <<script, recent, order, cvars, yvars, boot>>

\* find_boxes 216-223: draw the best rotated rectangle if no quad was drawn,
\* and return the count.
FbReturn ==
    /\ call.fn = "find_boxes" /\ call.pc = "loop"
    /\ call.i > Len(call.cnts)
    /\ call' = [call EXCEPT
                  !.pc = "done",
                  !.rotated = IF call.detections = 0 /\ call.best # 0
                              THEN call.best ELSE 0,
                  !.count = FinalCount(call.detections, call.best)]
    /\ UNCHANGED <<script, recent, order, cvars, yvars, boot>>

FbNext == FbContour \/ FbReturn

SpecBoxes == FbInit /\ [][FbNext]_vars

\* ================================================================ decode
\* infer 138-146: the model output `out` becomes a 2-D array with one row per
\* detection. An array is its shape and what its rows hold; an output has
\* A = 4 + 1 + classes attributes for each of N detections.
MaxClasses == 4
MaxDets == 6
\* The attribute count tested at line 140.
ATTRS_TESTED == 84

ClassCounts == (1..MaxClasses) \cup {79, 80}
DetCounts == (1..MaxDets) \cup {84, 8400}

\* numpy .T of a 2-D array.
Transposed(a) ==
    [shape |-> <<a.shape[2], a.shape[1]>>,
     rows |-> IF a.rows = "detections" THEN "attributes" ELSE "detections"]

\* np.squeeze(out, 0) of an array whose first dimension is 1.
Squeezed(a) == [shape |-> Tail(a.shape), rows |-> a.rows]

\* infer 139-146.
DecodeOut(out) ==
    IF Len(out.shape) = 3
    THEN IF out.shape[2] = ATTRS_TESTED
         THEN Transposed(Squeezed(out))
         ELSE Squeezed(out)
    ELSE Squeezed(out)

DecodeInit ==
    /\ Constructed
    /\ script = "box_stream_yolo"
    /\ boot = Served
    /\ \E k \in ClassCounts, n \in DetCounts, layout \in {"1AN", "1NA"} :
         call = [fn |-> "decode", pc |-> "run", A |-> 4 + 1 + k, N |-> n,
                 out |-> IF layout = "1AN"
                         THEN [shape |-> <<1, 4 + 1 + k, n>>, rows |-> "attributes"]
                         ELSE [shape |-> <<1, n, 4 + 1 + k>>, rows |-> "detections"]]

\* infer 136-146: session.run returned `out`; decode it.
Decode ==
    /\ call.fn = "decode" /\ call.pc = "run"
    /\ call' = [call EXCEPT !.pc = "done", !.out = DecodeOut(call.out)]
    /\ UNCHANGED <<script, recent, order, cvars, yvars, boot>>

SpecDecode == DecodeInit /\ [][Decode]_vars

\* ============================================ the worker, scheduled fairly
\* The decoupler without faults: yolo.infer returns for every frame, and the
\* worker thread (a daemon thread whose loop waits on q.get with a timeout
\* and tries again) is never starved. Nothing is assumed of the request
\* threads: a client may stop reading at any point. The producers are
\* /video_raw streams: mjpeg_generator captures and submits the same way
\* with and without annotation (327-328), and annotate_and_decide writes
\* none of q, frame_count and last_result.

\* Frames the camera delivers before SpecFair stops capturing.
FairCam == 6

FairView == \A t \in Threads : th[t].kind \in {"none", "video_raw"}

FairInit == Init /\ script = "box_stream_yolo"

FairNext ==
    \/ \E t \in Threads : Request(t) /\ FairView'
    \/ \E t \in Threads : Capture(t, FairCam)
    \/ \E t \in Threads : SubmitPut(t)
    \/ \E t \in Threads : GetResult(t)
    \/ WorkerGet
    \/ WorkerInfer

SpecFair ==
    /\ FairInit
    /\ [][FairNext]_vars
    /\ WF_vars(WorkerGet)
    /\ WF_vars(WorkerInfer)

\* ===================================== the two stabilizers, frame by frame
\* Both stabilizers from construction, fed the same raw counts with the same
\* thresholds and the same number of leading warm-up frames: the classical
\* one in `gen`, the neural one in the globals hits, misses and present.

\* Largest threshold the comparison runs with.
MaxThreshold == 3
\* Largest number of leading warm-up frames.
MaxWarmup == 2
\* Frames fed to the two stabilizers.
EquivFrames == 8

\* Mutant of SequentialTests: the first test is strict (hits > upT).
SequentialTestsStrict(p, h, m, upT, downT) ==
    LET p1 == IF ~p /\ h > upT THEN TRUE ELSE p
    IN  IF p1 /\ m >= downT THEN FALSE ELSE p1

\* annotate_and_decide 297-300: `if not present and hits >= DEBOUNCE_UP`
\* then `if present and misses >= DEBOUNCE_DOWN`, one after the other.
SequentialTests(p, h, m, upT, downT) ==
    LET p1 == IF ~p /\ h >= upT THEN TRUE ELSE p
    IN  IF p1 /\ m >= downT THEN FALSE ELSE p1

\* annotate_and_decide 285-302 on the globals s = [hits, misses, present]:
\* in warm-up return (bgr, 0, False) and leave s alone; else count the frame
\* and run the two tests. `now` is the presence returned to the caller.
AnnotateStep(s, box_count, in_warmup, upT, downT) ==
    IF in_warmup
    THEN [hits |-> s.hits, misses |-> s.misses, present |-> s.present,
          now |-> FALSE]
    ELSE LET h == IF box_count > 0 THEN s.hits + 1 ELSE 0
             m == IF box_count > 0 THEN 0 ELSE s.misses + 1
             p == SequentialTests(s.present, h, m, upT, downT)
         IN  [hits |-> h, misses |-> m, present |-> p, now |-> p]

EquivInit ==
    /\ Constructed
    /\ boot = Served
    /\ \E hitT \in 0..MaxThreshold, missT \in 0..MaxThreshold, warmN \in 0..MaxWarmup :
         call = [fn |-> "stabilizers", hitT |-> hitT, missT |-> missT,
                 warmN |-> warmN, fed |-> 0]

\* One frame with raw count raw_count through box_stream.py 251-267 and
\* through box_stream_yolo.py 285-302, 335-342.
EquivFrame ==
    /\ call.fn = "stabilizers"
    /\ call.fed < EquivFrames
    /\ \E raw_count \in RawCounts :
         LET s == AnnotateStep([hits |-> hits, misses |-> misses, present |-> present],
                               raw_count, InWarmup(call.fed + 1 <= call.warmN),
                               call.hitT, call.missT)
         IN  /\ gen' = StreamStep(gen, raw_count, call.warmN, call.hitT, call.missT)
             /\ hits' = s.hits
             /\ misses' = s.misses
             /\ present' = s.present
             /\ last_present' = Logged("video", s.now)
             /\ recent' = LastN(Append(recent, raw_count > 0), EquivFrames)
    /\ call' = [call EXCEPT !.fed = call.fed + 1]
    /\ UNCHANGED <<script, order, cycle, boot>>
    /\ UNCHANGED <<q, last_result, frame_count, w_pc, warm, cam, th, newest,
                   oldest, took, advances>>

SpecEquiv == EquivInit /\ [][EquivFrame]_vars

\* ================================================================= properties

\* C1: during warm-up the reported presence is Absent and hits = misses = 0
\* after every frame, whatever the raw counts: in the classical loop while
\* frame_i <= STARTUP_WARMUP_FRAMES, in the neural variant while the elapsed
\* time is below WARMUP_SEC.
C1_WarmupAbsent ==
    /\ (script = "box_stream" /\ gen.frame_i <= STARTUP_WARMUP_FRAMES)
          => (~gen.present /\ gen.hits = 0 /\ gen.misses = 0)
    /\ (script = "box_stream_yolo" /\ warm)
          => (~present /\ ~last_present /\ hits = 0 /\ misses = 0)

\* C1 witness: the last warm-up frame of the classical loop, reached through
\* MISS_THRESHOLD positive frames in a row, and presence is still Absent.
C1_Witness ==
    /\ script = "box_stream"
    /\ gen.frame_i = STARTUP_WARMUP_FRAMES
    /\ AllOf(recent, MISS_THRESHOLD, TRUE)
    /\ ~gen.present

\* Thread t returns from annotate_and_decide and presence changes with it.
Flips(t) == th[t].pc = "decide" /\ th'[t].pc # "decide" /\ present' # present

\* C2: presence changes from Absent to Present at a frame only if that frame
\* and the DEBOUNCE_UP - 1 frames immediately before it all had raw count > 0:
\* the frame is positive and, in some total order of the frames that respects
\* the order in which their debounces ran, the DEBOUNCE_UP - 1 frames before
\* it are positive.
C2_PresentOnlyAfterHits ==
    [][\A t \in Threads :
          (Flips(t) /\ ~present) => (Sign(t) /\ order.mine[t] >= RunBefore(TRUE))]_vars

\* C3: presence changes from Present to Absent at a frame only if that frame
\* and the DEBOUNCE_DOWN - 1 frames immediately before it all had raw count 0:
\* the frame is a zero-count frame and, in some total order of the frames that
\* respects the order in which their debounces ran, the DEBOUNCE_DOWN - 1
\* frames before it are zero-count frames.
C3_AbsentOnlyAfterMisses ==
    [][\A t \in Threads :
          (Flips(t) /\ present) => (~Sign(t) /\ order.mine[t] >= RunBefore(FALSE))]_vars

\* Frames at which spec.md's example reports Present.
ExamplePresent == 8..13
\* Frames for which spec.md's example states the reported presence.
ExampleStated == 1..14

\* C4: with HIT_THRESHOLD=3, MISS_THRESHOLD=6, warm-up=5 and raw counts
\* [0,0,0,0,0,1,1,1,0,0,0,0,0,0,0] the stabilizer reports Absent for frames
\* 1-7, Present for frames 8-13 and Absent at frame 14.
C4_ExampleTrace ==
    (gen.frame_i \in ExampleStated /\ recent = ExamplePrefix(gen.frame_i))
        => (gen.present <=> gen.frame_i \in ExamplePresent)

\* C4 witness: the example's 14th frame has been analysed, with the example's
\* counts before it, and presence is back to Absent with six misses.
C4_Witness ==
    /\ gen.frame_i = 14
    /\ recent = ExamplePrefix(14)
    /\ ~gen.present
    /\ gen.misses = ExampleCfg.miss

\* C5: DetectorThread.submit never raises, under every interleaving of the
\* worker and of concurrent callers: no request thread ever ends in the
\* queue.Full that put_nowait raises.
C5_SubmitNeverRaises == \A t \in Threads : th[t].pc # "raised"

\* Thread t makes a step of DetectorThread.submit: the q.full() test (with the
\* capture of an offered frame) or put_nowait.
Submits(t) ==
    /\ th'[t] # th[t]
    /\ \/ th[t].pc = "put"
       \/ th[t].pc = "capture" /\ Offered(th[t].kind, cam')

\* C6: the hand-off slot holds at most one pending frame in every reachable
\* state, and a submit made while the slot is occupied leaves the slot content
\* unchanged.
C6_SlotKeepsPending ==
    [][/\ Len(q) <= QMaxSize
       /\ Len(q') <= QMaxSize
       /\ \A t \in Threads : (Submits(t) /\ Full(q)) => q' = q]_vars

\* C6 witness: the worker has taken nothing yet, the slot holds a frame and a
\* stream thread is past submit with another frame: its offer was dropped.
C6_Witness ==
    /\ frame_count = 0
    /\ q # <<>>
    /\ \E t \in Threads :
          /\ th[t].kind # "snapshot"
          /\ th[t].pc = "get"
          /\ th[t].frame # 0
          /\ th[t].frame # Head(q)

\* C7 as stated: whenever the worker takes a frame from the slot, that frame
\* is the newest frame submitted up to that moment.
C7_TakesNewest == took.any => took.newest

\* C7 amended: whenever the worker takes a frame from the slot, that frame is
\* the one a submit placed into the empty slot, the first frame offered since
\* the slot was last empty; frames offered while it was pending were dropped.
C7_TakesPending == took.any => took.oldest

\* C7 witness: the worker took the pending frame while a newer frame had
\* already been submitted.
C7_Witness == took.any /\ took.oldest /\ ~took.newest

\* C8 as stated: the capture loop attempts a hand-off only for every
\* FRAME_SKIP-th captured frame: two frames handed to submit are at least
\* FRAME_SKIP captures apart.
C8_ProducerThrottled ==
    [][(newest' # newest /\ newest # 0) => newest' - newest >= FRAME_SKIP]_vars

\* C8 amended: the stream loop hands every captured frame to submit; it is the
\* worker that skips: it runs inference on a dequeued frame exactly when
\* frame_count is a multiple of FRAME_SKIP + 1.
C8_WorkerThrottled ==
    [][/\ \A t \in Threads :
             (th[t].pc = "capture" /\ th'[t].pc # "capture" /\ th[t].kind # "snapshot")
                 => newest' = cam'
       /\ frame_count' # frame_count
             => (w_pc' = "infer" <=> frame_count' % (FRAME_SKIP + 1) = 0)]_vars

\* C8 witness: FRAME_SKIP + 1 frames were captured, every one was handed to
\* submit and dequeued, and the worker runs inference on the last one only.
C8_Witness ==
    /\ cam = FRAME_SKIP + 1
    /\ newest = cam
    /\ frame_count = FRAME_SKIP + 1
    /\ w_pc = "infer"

\* Inference results completed so far (DetectorThread.run 223-229).
Inferences ==
    (frame_count \div (FRAME_SKIP + 1)) - (IF w_pc = "infer" THEN 1 ELSE 0)

\* C9: the hit/miss counters advance at most once per completed inference
\* result, and a /snapshot request never changes them.
C9_OncePerAnalyzedFrame ==
    /\ advances <= Inferences
    /\ \A t \in Threads : th[t].kind = "snapshot" => th[t].pc \notin {"store", "decide"}

\* C10: no two stabilizer steps ever execute concurrently: at most one request
\* thread is inside the debounce of annotate_and_decide.
C10_OneStabilizerStep ==
    Cardinality({t \in Threads : th[t].pc \in DebouncePCs}) <= 1

\* C11: the presence state is never reset after process start: no step takes
\* the frame counter back (frames seen never decrease) and no step re-enters
\* the warm-up window, in particular not the opening of a new /video stream.
C11_NeverReset ==
    [][ /\ gen'.frame_i >= gen.frame_i
        /\ (gen'.frame_i < STARTUP_WARMUP_FRAMES
              => gen.frame_i < STARTUP_WARMUP_FRAMES)
        /\ (warm' => warm) ]_vars

\* C12: a cycle of the classical loop whose detection pass raised, after
\* warm-up, has fed the stabilizer raw count 0: the frame is counted, misses
\* is incremented and hits is reset.
C12_DetectFailureIsMiss ==
    [][ (cycle'.at = "detect" /\ gen.frame_i >= STARTUP_WARMUP_FRAMES)
          => /\ gen'.frame_i = gen.frame_i + 1
             /\ gen'.misses = gen.misses + 1
             /\ gen'.hits = 0 ]_vars

\* C13: a cycle of the classical loop whose capture failed leaves hits,
\* misses, present and the frame counter unchanged and yields no frame, and
\* after it the loop can run its next cycle.
C13_CaptureFailureSkips ==
    /\ [][ cycle'.at = "capture"
             => /\ gen' = gen
                /\ recent' = recent
                /\ ~cycle'.sent ]_vars
    /\ [](cycle.at = "capture" => ENABLED ClassicCaptureFails
                                  /\ (gen.frame_i < MaxFrames
                                        => ENABLED ClassicFrame))

\* A capture failure while the box is present, after warm-up.
C13_Witness ==
    /\ cycle.at = "capture"
    /\ gen.present
    /\ gen.hits > 0
    /\ gen.frame_i > STARTUP_WARMUP_FRAMES

\* C14: no per-frame error ends the neural stream: a generator in which a
\* capture, the annotation or the hand-off raised can still capture its next
\* frame.
C14_StreamSurvivesError ==
    \A t \in Threads :
        (th[t].pc = "raised" /\ th[t].kind # "snapshot")
           => ENABLED Capture(t, cam + 1)

\* C15: an exception of one inference is contained to its frame: a frame
\* waiting in the slot can still be dequeued, at once or when the running
\* inference has returned.
C15_WorkerSurvives ==
    q # <<>> => (w_pc = "infer" \/ ENABLED WorkerGet)

\* C16: the model loaded at start-up is the first path of MODEL_PATHS, in list
\* order, that exists; when no configured path exists, start-up fails before
\* the inference worker is created or started and before any frame is
\* captured, handed off or served.
C16_FirstExistingLoaded ==
    script = "box_stream_yolo" =>
      /\ boot.stage \notin {"import", "failed"}
           => \E i \in 1..Len(boot.paths) :
                 /\ boot.model = boot.paths[i]
                 /\ boot.paths[i] \in boot.files
                 /\ \A j \in 1..(i - 1) : boot.paths[j] \notin boot.files
      /\ (\A i \in 1..Len(boot.paths) : boot.paths[i] \notin boot.files)
           => /\ boot.stage \in {"import", "failed"}
              /\ boot.model = "None"
              /\ boot.worker = "none"
              /\ cam = 0 /\ q = <<>> /\ frame_count = 0
              /\ \A t \in Threads : th[t].pc = "idle"

\* The preferred model is missing, the fallback listed second is loaded and a
\* frame has been handed off.
C16_Witness ==
    /\ script = "box_stream_yolo"
    /\ Len(boot.paths) = 2
    /\ boot.paths[1] \notin boot.files
    /\ boot.model = boot.paths[2]
    /\ boot.paths[1] # boot.paths[2]
    /\ q # <<>>

\* C17: thresholds that are out of range are rejected at start-up: no frame
\* reaches the stabilizer, and no request is served, under thresholds that
\* are not valid.
C17_InvalidConfigRejected ==
    (Serving \/ gen.frame_i > 0) => ValidThresholds(boot.cfg)

\* The pixels a box covers, corners included.
Pixels(b) == (b.x1..b.x2) \X (b.y1..b.y2)

\* Intersection over union of two boxes, counted in pixels, is above pct %.
IoUAbove(a, b, pct) ==
    Cardinality(Pixels(a) \cap Pixels(b)) * 100
        > pct * Cardinality(Pixels(a) \cup Pixels(b))

Kept == {call.keep[k] : k \in 1..Len(call.keep)}

\* C18: any two distinct boxes whose indices nms returns have
\* intersection-over-union at most iou_thresh (at every point of the loop,
\* and so in the list returned).
C18_KeptBoxesApart ==
    call.fn = "nms" =>
      \A a, b \in 1..Len(call.keep) :
          a # b => ~IoUAbove(call.boxes[call.keep[a]], call.boxes[call.keep[b]],
                             call.iou_thresh)

\* nms returned three boxes for the default threshold, two of them touching.
C18_Witness ==
    /\ call.fn = "nms" /\ call.pc = "done"
    /\ call.iou_thresh = 45
    /\ Len(call.keep) = 3
    /\ \E a, b \in Kept :
          a # b /\ Pixels(call.boxes[a]) \cap Pixels(call.boxes[b]) # {}

\* C20: the list nms returns is in descending score order, starts with a
\* highest-scoring box when the input is not empty, is empty for the empty
\* input, and every box left out has IoU above iou_thresh with a returned
\* box whose score is at least its own.
C20_GreedySteps ==
    (call.fn = "nms" /\ call.pc = "done") =>
      /\ \A a, b \in 1..Len(call.keep) :
            a < b => call.scores[call.keep[a]] >= call.scores[call.keep[b]]
      /\ Len(call.boxes) > 0
           => /\ Len(call.keep) > 0
              /\ \A j \in 1..Len(call.boxes) :
                    call.scores[call.keep[1]] >= call.scores[j]
      /\ Len(call.boxes) = 0 => call.keep = <<>>
      /\ \A j \in (1..Len(call.boxes)) \ Kept :
            \E k \in Kept :
               /\ IoUAbove(call.boxes[k], call.boxes[j], call.iou_thresh)
               /\ call.scores[k] >= call.scores[j]

\* nms dropped a box that scores below the box it overlaps and kept a box
\* that scores below both.
C20_Witness ==
    /\ call.fn = "nms" /\ call.pc = "done"
    /\ Len(call.boxes) = 3 /\ Len(call.keep) = 2
    /\ call.scores[call.keep[1]] > call.scores[call.keep[2]]
    /\ \E j \in (1..3) \ Kept : j < call.keep[1]

\* The recovered coordinate v (numerator over one) is within a pixel of x.
Near(v, x, one) == v - x * one <= one /\ x * one - v <= one

\* C19: a box inside the frame, taken to the canvas by the letterbox
\* transform and back by the inverse of infer, comes back with every
\* coordinate within one pixel of the original.
C19_LetterboxRoundTrip ==
    (call.fn = "letterbox" /\ call.pc = "done") =>
      LET one == INFER_SIZE * Max(call.H, call.W) IN
      /\ Near(call.back.x1, call.box.x1, one)
      /\ Near(call.back.y1, call.box.y1, one)
      /\ Near(call.back.x2, call.box.x2, one)
      /\ Near(call.back.y2, call.box.y2, one)

\* A 640x480 capture, padded above and below, with a box that reaches the
\* right and bottom edges of the frame, where the clip takes a pixel.
C19_Witness ==
    /\ call.fn = "letterbox" /\ call.pc = "done"
    /\ call.H = 480 /\ call.W = 640
    /\ call.top > 0 /\ call.left = 0
    /\ call.box.x1 > 0 /\ call.box.x2 = call.W /\ call.box.y2 = call.H
    /\ call.back.x2 < call.box.x2 * INFER_SIZE * 640

\* The contours of the call that are convex quads passing the area, aspect
\* and rectangularity filter, and those that pass the rotated-rectangle one.
Quads ==
    {j \in 1..Len(call.cnts) :
        /\ AreaInRange(call.cnts[j].area, call.frame)
        /\ call.cnts[j].quad /\ QuadPasses(call.cnts[j])}
Candidates ==
    {j \in 1..Len(call.cnts) :
        /\ AreaInRange(call.cnts[j].area, call.frame)
        /\ j \notin Quads
        /\ RotPasses(call.cnts[j], call.frame)}

C22_DecodeRows ==
    (call.fn = "decode" /\ call.pc = "done") =>
      /\ call.out.shape = <<call.N, call.A>>
      /\ call.out.rows = "detections"

\* The stabilizer invariant on counters h, m and presence p for thresholds
\* hitT and missT.
StabInv(p, h, m, hitT, missT) ==
    /\ h = 0 \/ m = 0
    /\ ~p => h < hitT
    /\ p => m < missT

\* C23: after every completed stabilizer step at most one of hits and misses
\* is non-zero, Absent implies hits < HIT_THRESHOLD and Present implies
\* misses < MISS_THRESHOLD: for the classical loop after every frame, for the
\* neural variant whenever a call of annotate_and_decide returns.
C23_StabilizerInvariant ==
    [][ /\ gen' # gen
          => StabInv(gen'.present, gen'.hits, gen'.misses,
                     HIT_THRESHOLD, MISS_THRESHOLD)
        /\ \A t \in Threads :
             (th[t].pc \in {"decide", "down"} /\ th'[t].pc = "capture")
               => StabInv(present', hits', misses',
                          DEBOUNCE_UP, DEBOUNCE_DOWN) ]_vars

\* The classical loop has just analysed a frame that ends a run of
\* HIT_THRESHOLD positive frames (of MISS_THRESHOLD zero-count frames), all
\* of them after the warm-up frames: presence is Present (Absent).
ClassicResponds ==
    (gen' # gen /\ recent' # recent) =>
       /\ (gen'.frame_i >= STARTUP_WARMUP_FRAMES + HIT_THRESHOLD
             /\ AllOf(recent', HIT_THRESHOLD, TRUE)) => gen'.present
       /\ (gen'.frame_i >= STARTUP_WARMUP_FRAMES + MISS_THRESHOLD
             /\ AllOf(recent', MISS_THRESHOLD, FALSE)) => ~gen'.present

\* Thread t returns from annotate_and_decide while no other request is
\* between its capture and its return, and the frames counted last are
\* DEBOUNCE_UP positive frames (DEBOUNCE_DOWN zero-count frames): presence
\* is Present (Absent).
NeuralResponds(t) ==
    (/\ th[t].pc = "decide" /\ th'[t].pc # "decide"
     /\ \A u \in Threads \ {t} : ~Busy(u)) =>
       /\ AllOf(recent, DEBOUNCE_UP, TRUE) => present'
       /\ AllOf(recent, DEBOUNCE_DOWN, FALSE) => ~present'

\* C24: after warm-up, HIT_THRESHOLD consecutive frames with raw count > 0
\* always leave presence Present at the last of them, and MISS_THRESHOLD
\* consecutive frames with raw count 0 always leave presence Absent at the
\* last of them, from any reachable state, in both scripts.
C24_StabilizerResponse ==
    [][ClassicResponds /\ \A t \in Threads : NeuralResponds(t)]_vars

\* C25: with equal thresholds >= 1 and the same number of leading warm-up
\* frames, the classical nested rule and the neural variant's two sequential
\* tests leave the same hits, misses and presence after every frame of every
\* raw-count sequence, the warm-up frames (where the neural variant returns
\* early without resetting its counters) included.
C25_StabilizersAgree ==
    (call.fn = "stabilizers" /\ call.hitT >= 1 /\ call.missT >= 1) =>
       /\ hits = gen.hits
       /\ misses = gen.misses
       /\ present = gen.present
       /\ last_present = gen.present

\* Both stabilizers went through warm-up frames, reached Present and then
\* Absent again, with thresholds above 1.
C25_Witness ==
    /\ call.fn = "stabilizers" /\ call.hitT >= 2 /\ call.missT >= 2
    /\ call.warmN >= 1 /\ call.fed = EquivFrames
    /\ recent[call.warmN + call.hitT]
    /\ ~present /\ ~gen.present /\ misses = call.missT /\ gen.misses = call.missT
    /\ \E i \in 1..EquivFrames : recent[i] /\ AllOf(SubSeq(recent, 1, i), call.hitT, TRUE)
                                           /\ i >= call.warmN + call.hitT

\* Frames accepted into the slot so far: those dequeued and the pending one.
Accepted == frame_count + Len(q)

\* The worker's steps: a dequeue counts the frame and goes on to inference
\* exactly when the count is a multiple of FRAME_SKIP + 1; only the end of an
\* inference writes last_result, and every inference ends with that write.
WorkerSteps ==
    /\ q' # q /\ Len(q') < Len(q)
          => /\ frame_count' = frame_count + 1
             /\ w_pc' = "infer" <=> frame_count' % (FRAME_SKIP + 1) = 0
    /\ last_result' # last_result => (w_pc = "infer" /\ w_pc' = "get")
    /\ (w_pc = "get" /\ w_pc' = "get") => last_result' = last_result
    /\ Inferences' # Inferences => (w_pc = "infer" /\ w_pc' = "get")

\* C26: if inference always terminates without raising and the worker is
\* scheduled fairly, every frame accepted into the slot is eventually
\* dequeued, the slot is empty infinitely often, the worker runs inference on
\* exactly the dequeued frames whose 1-based dequeue index is a multiple of
\* FRAME_SKIP + 1 (the others leave the last-known result unchanged) and
\* completes it, and the last-known result keeps being updated as frames keep
\* being accepted: once k * (FRAME_SKIP + 1) frames have been accepted, k
\* inference results are eventually stored.
C26_DecouplerProgress ==
    /\ (q # <<>>) ~> (q = <<>>)
    /\ []<>(q = <<>>)
    /\ [][WorkerSteps]_vars
    /\ (w_pc = "infer") ~> (w_pc = "get")
    /\ \A k \in 1..(FairCam \div (FRAME_SKIP + 1)) :
          (Accepted >= k * (FRAME_SKIP + 1)) ~> (Inferences >= k)

\* Every frame the camera delivered was accepted and dequeued, and the worker
\* has stored the result of the inference on every (FRAME_SKIP + 1)-th.
C26_Witness ==
    /\ script = "box_stream_yolo"
    /\ boot = Served
    /\ cam = FairCam
    /\ frame_count = FairCam
    /\ q = <<>>
    /\ w_pc = "get"
    /\ Inferences = FairCam \div (FRAME_SKIP + 1)
    /\ last_result > 0

====
